---- MODULE Spec2Model ----
(***************************************************************************)
(* The query-answering pipeline of the F1 Race Intelligence Agent:         *)
(* UNDERSTAND -> PLAN -> EXECUTE -> PROCESS -> EVALUATE -> (PLAN |         *)
(* GENERATE) -> STORE -> END, as laid down in the agent architecture       *)
(* design (node implementations and graph diagram).                        *)
(*                                                                         *)
(* Scores are in tenths (0.7 is 7).  A key that a node has not yet written *)
(* into the graph state is Absent; state.get(key, default) is Get.         *)
(*                                                                         *)
(* The client that talks to it: the chat store, the message input, the     *)
(* sidebar and the WebSocket hook of the Next.js frontend.                 *)
(***************************************************************************)
EXTENDS Integers, Sequences, FiniteSets, TLC

VARIABLES
    pc,              \* the node the graph is at
    state,           \* the graph state: a dict from the keys written so far
    planner_context, \* the context of the last planner call to the model
    planner_passes,  \* number of times the PLAN node has run this turn
    evaluation_out,  \* the update the last evaluate_data call returned
    scores,          \* the completeness scores evaluated so far this turn
    epc,             \* execute_tools: position inside the function
    gi,              \* execute_tools: index of the group of the for loop
    tasks,           \* execute_tools: the tasks handed to asyncio.gather
    results,         \* execute_tools: the local results dict
    gathered,        \* execute_tools: per finished group, the calls gather returned a result for
    exc,             \* the exception that left the graph, "none" if none did
    expired,         \* the clock: the overall turn deadline has passed
    sessions,        \* chat store: sessions, newest first
    activeSessionId, \* chat store: id of the active session, NoSession for null
    isStreaming,     \* chat store: isStreaming
    idCounter,       \* generateId: number of ids handed out
    input,           \* MessageInput: the text typed so far
    wsRef,           \* useWebSocket: wsRef.current, NoSocket for null
    sockets,         \* every WebSocket created so far, in order of creation
    isConnected,     \* useWebSocket: isConnected
    hookStreaming,   \* useWebSocket: isStreaming
    stored,          \* localStorage: the item under STORAGE_KEY
    saveTimers,      \* addMessage: debounced saves whose 500 ms have not passed
    currentArtifact, \* ui store: currentArtifact
    artifactPanelOpen \* ui store: artifactPanelOpen

\* the client
uiVars == <<sessions, activeSessionId, isStreaming, idCounter, input,
            wsRef, sockets, isConnected, hookStreaming, stored, saveTimers,
            currentArtifact, artifactPanelOpen>>

\* what no node of the graph writes
outsideVars == <<exc, expired, uiVars>>

vars == <<pc, state, planner_context, planner_passes, evaluation_out, scores,
          epc, gi, tasks, results, gathered, exc, expired, uiVars>>

execVars == <<epc, gi, tasks, results, gathered>>

----------------------------------------------------------------------------
(* Bounds and program constants *)

\* longest tool_calls list (and most group entries) of a plan given to
\* execute_tools on its own
MaxCalls == 3
\* longest tool_calls list (and most group entries) the planner's model
\* returns inside a whole turn
MaxPlannerCalls == 1

\* completeness_score >= 0.7, in tenths
Threshold == 7
\* iteration >= 2
MaxIterations == 2

Ids == {"lap_times", "sector_times"}

----------------------------------------------------------------------------
(* Dicts and sequences *)

EmptyDict == [k \in {} |-> 0]

\* state.get(key, default)
Get(d, key, default) == IF key \in DOMAIN d THEN d[key] ELSE default

\* a node's returned update is written over the graph state key by key
Merge(d, update) ==
    [k \in DOMAIN d \cup DOMAIN update |->
        IF k \in DOMAIN update THEN update[k] ELSE d[k]]

SeqsUpTo(S, n) == UNION {[1..k -> S] : k \in 0..n}

Range(s) == {s[i] : i \in 1..Len(s)}

RECURSIVE SumLen(_)
SumLen(ss) == IF ss = <<>> THEN 0 ELSE Len(Head(ss)) + SumLen(Tail(ss))

Min(x, y) == IF x <= y THEN x ELSE y

----------------------------------------------------------------------------
(* Schemas *)

\* ToolCall: id and depends_on drawn from deps (tool_name and parameters are
\* opaque)
ToolCall(deps) == [id : Ids, depends_on : deps]

\* depends_on of at most one id
DependsOn == {{}} \cup {{d} : d \in Ids}

\* parallel_groups: non-empty groups of ids, n entries in all at most
ParallelGroups(n) ==
    {pg \in SeqsUpTo(SeqsUpTo(Ids, n) \ {<<>>}, n) : SumLen(pg) <= n}

\* DataPlan: every value the DataPlan schema admits within n calls and n
\* group entries; the schema checks types only
DataPlan(n, deps) ==
    {[tool_calls |-> tc, parallel_groups |-> pg] :
        tc \in SeqsUpTo(ToolCall(deps), n), pg \in ParallelGroups(n)}

\* QueryUnderstanding: query_type and the requested metrics
QueryUnderstanding ==
    [query_type : {"comparison", "pace"},
     metrics : {{"lap_times"}, {"lap_times", "sector_times"}}]

----------------------------------------------------------------------------
(* UNDERSTAND node *)

\* understand_query: one structured model call, whose answer is any
\* QueryUnderstanding
understand_query ==
    /\ pc = "understand"
    /\ \E u \in QueryUnderstanding :
        state' = Merge(state, [query_understanding |-> u])
    /\ pc' = "plan"
    /\ UNCHANGED <<planner_context, planner_passes, evaluation_out, scores, execVars>>
    /\ UNCHANGED outsideVars

----------------------------------------------------------------------------
(* PLAN node *)

\* the plans the model may answer with in a whole turn
PlannerOutputs == DataPlan(MaxPlannerCalls, DependsOn)

\* faulty variant: the planner never reads the feedback key
PlannerContext_no_feedback(st) ==
    [understanding |-> st.query_understanding,
     previous_feedback |-> <<>>]

\* context of the planner's model call;
\* feedback = state.get("evaluation_feedback", "")
PlannerContext(st) ==
    [understanding |-> st.query_understanding,
     previous_feedback |-> Get(st, "evaluation_feedback", <<>>)]

\* plan_data_retrieval: one structured model call with the understanding and
\* the previous feedback; whatever DataPlan comes back is stored as it is
plan_data_retrieval ==
    /\ pc = "plan"
    /\ planner_context' = PlannerContext(state)
    /\ \E p \in PlannerOutputs : state' = Merge(state, [data_plan |-> p])
    /\ planner_passes' = planner_passes + 1
    /\ pc' = "execute"
    /\ UNCHANGED <<evaluation_out, scores, execVars>>
    /\ UNCHANGED outsideVars

----------------------------------------------------------------------------
(* EXECUTE node *)

\* tasks = [tools[call.tool_name](**call.parameters)
\*          for call in plan.tool_calls if call.id in group]
GroupCalls(plan, group) ==
    SelectSeq(plan.tool_calls, LAMBDA call : call.id \in Range(group))

GroupTasks(plan, group) ==
    [i \in 1..Len(GroupCalls(plan, group)) |->
        [id |-> GroupCalls(plan, group)[i].id, st |-> "running",
         overdue |-> FALSE]]

\* faulty variant: gather without return_exceptions, which raises the first
\* exception of a task as soon as it occurs
gather_propagating(ts) ==
    [done   |-> \/ \A i \in 1..Len(ts) : ts[i].st # "running"
                \/ \E i \in 1..Len(ts) : ts[i].st = "fail",
     raised |-> \E i \in 1..Len(ts) : ts[i].st = "fail",
     values |-> [i \in 1..Len(ts) |->
                    [exc |-> ts[i].st = "fail", from |-> ts[i].id]]]

\* faulty variant: the gathered calls are not awaited, the loop goes on while
\* they run
gather_unawaited(ts) ==
    [done   |-> TRUE,
     raised |-> FALSE,
     values |-> [i \in 1..Len(ts) |->
                    [exc |-> ts[i].st = "fail", from |-> ts[i].id]]]

\* asyncio.gather(*tasks, return_exceptions=True): resolves once every task
\* has resolved, to the list of their results or exceptions in task order;
\* it never raises and never cancels a task
gather(ts) ==
    [done   |-> \A i \in 1..Len(ts) : ts[i].st # "running",
     raised |-> FALSE,
     values |-> [i \in 1..Len(ts) |->
                    [exc |-> ts[i].st = "fail", from |-> ts[i].id]]]

\* result if not isinstance(result, Exception) else {"error": str(result)}
Recorded(result) ==
    IF result.exc THEN [kind |-> "error", from |-> result.from]
                  ELSE [kind |-> "payload", from |-> result.from]

\* for tool_id, result in zip(group, group_results): results[tool_id] = ...
\* zip stops at the shorter list; a later pair overwrites an earlier one
ZipInto(res, group, group_results) ==
    LET m == Min(Len(group), Len(group_results))
        last(id) == CHOOSE k \in 1..m :
                        /\ group[k] = id
                        /\ \A j \in 1..m : group[j] = id => j <= k
    IN  [id \in DOMAIN res \cup {group[k] : k \in 1..m} |->
            IF \E k \in 1..m : group[k] = id
            THEN Recorded(group_results[last(id)])
            ELSE res[id]]

\* plan = DataPlan(**state["data_plan"]); results = {}
ExecuteBegin ==
    /\ pc = "execute" /\ epc = "idle"
    /\ results' = EmptyDict
    /\ gi' = 1
    /\ tasks' = <<>>
    /\ gathered' = <<>>
    /\ epc' = "for"
    /\ UNCHANGED <<pc, state, planner_context, planner_passes, evaluation_out, scores>>
    /\ UNCHANGED outsideVars

\* for group in plan.parallel_groups: tasks = [...]; the gather call starts
\* every task of the group
StartGroup ==
    /\ pc = "execute" /\ epc = "for"
    /\ gi <= Len(state.data_plan.parallel_groups)
    /\ tasks' = GroupTasks(state.data_plan, state.data_plan.parallel_groups[gi])
    /\ epc' = "gather"
    /\ UNCHANGED <<pc, state, planner_context, planner_passes, evaluation_out, scores,
                   gi, results, gathered>>
    /\ UNCHANGED outsideVars

\* one running tool call returns or raises
TaskResolve ==
    /\ pc = "execute" /\ epc = "gather"
    /\ \E i \in 1..Len(tasks), st \in {"ok", "fail"} :
        /\ tasks[i].st = "running"
        /\ tasks' = [tasks EXCEPT ![i].st = st]
    /\ UNCHANGED <<pc, state, planner_context, planner_passes, evaluation_out, scores,
                   epc, gi, results, gathered>>
    /\ UNCHANGED outsideVars

\* the calls a list of gather results comes from, in order
Reporters(group_results) ==
    [i \in 1..Len(group_results) |-> group_results[i].from]

\* group_results = await asyncio.gather(...), then the zip loop; an exception
\* out of gather would leave the node, and the graph, with it
JoinGroup ==
    /\ pc = "execute" /\ epc = "gather"
    /\ gather(tasks).done
    /\ IF gather(tasks).raised
       THEN /\ pc' = "error"
            /\ epc' = "idle"
            /\ UNCHANGED <<gi, tasks, results, gathered>>
       ELSE /\ results' = ZipInto(results, state.data_plan.parallel_groups[gi],
                                  gather(tasks).values)
            /\ gathered' = Append(gathered, Reporters(gather(tasks).values))
            /\ gi' = gi + 1
            /\ tasks' = <<>>
            /\ epc' = "for"
            /\ pc' = pc
    /\ UNCHANGED <<state, planner_context, planner_passes, evaluation_out, scores>>
    /\ UNCHANGED outsideVars

\* return {"raw_data": results}; the function's locals end with it
ExecuteReturn ==
    /\ pc = "execute" /\ epc = "for"
    /\ gi > Len(state.data_plan.parallel_groups)
    /\ state' = Merge(state, [raw_data |-> results])
    /\ epc' = "idle"
    /\ pc' = "process"
    /\ gi' = 0
    /\ tasks' = <<>>
    /\ results' = EmptyDict
    /\ gathered' = <<>>
    /\ UNCHANGED <<planner_context, planner_passes, evaluation_out, scores>>
    /\ UNCHANGED outsideVars

----------------------------------------------------------------------------
(* PROCESS node *)

\* how central a requested item is to the question, in tenths
Centrality == [id \in Ids |-> IF id = "lap_times" THEN 7 ELSE 3]

RECURSIVE SumCentrality(_)
SumCentrality(S) ==
    IF S = {} THEN 0
    ELSE LET x == CHOOSE y \in S : TRUE
         IN  Centrality[x] + SumCentrality(S \ {x})

\* calculate_completeness(raw_data, understanding): the share of the
\* requested items for which a non-failed result was found, weighted by
\* centrality, in tenths
calculate_completeness(raw, understanding) ==
    LET found == {m \in understanding.metrics :
                    m \in DOMAIN raw /\ raw[m].kind = "payload"}
    IN  (10 * SumCentrality(found)) \div SumCentrality(understanding.metrics)

\* process_data builds a new ProcessedAnalysis from raw_data and the
\* understanding alone; missing_data and confidence_score keep their
\* initial values
ProcessedAnalysis(raw, understanding) ==
    LET comparison == understanding.query_type = "comparison"
        names == (IF "lap_times" \in DOMAIN raw THEN {"lap_analysis"} ELSE {})
                 \cup (IF comparison THEN {"comparison"} ELSE {})
        summary == [n \in names |->
                      IF n = "lap_analysis" THEN <<raw["lap_times"]>> ELSE <<raw>>]
    IN  [summary            |-> summary,
         key_insights       |-> IF comparison THEN <<summary>> ELSE <<>>,
         completeness_score |-> calculate_completeness(raw, understanding),
         confidence_score   |-> 0,
         missing_data       |-> <<>>,
         recommended_viz    |-> IF comparison
                                THEN <<"lap_progression", "sector_comparison">>
                                ELSE <<>>]

\* faulty variant: the new summary is merged into the summary of the pass
\* before instead of replacing it
process_data_incremental ==
    /\ pc = "process"
    /\ LET new == ProcessedAnalysis(state.raw_data, state.query_understanding)
           old == Get(state, "processed_analysis", new)
       IN  state' = Merge(state, [processed_analysis |->
                        [new EXCEPT !.summary = Merge(old.summary, new.summary)]])
    /\ pc' = "evaluate"
    /\ UNCHANGED <<planner_context, planner_passes, evaluation_out, scores, execVars>>
    /\ UNCHANGED outsideVars

process_data ==
    /\ pc = "process"
    /\ state' = Merge(state, [processed_analysis |->
                    ProcessedAnalysis(state.raw_data, state.query_understanding)])
    /\ pc' = "evaluate"
    /\ UNCHANGED <<planner_context, planner_passes, evaluation_out, scores, execVars>>
    /\ UNCHANGED outsideVars

----------------------------------------------------------------------------
(* EVALUATE node *)

\* f"Missing data: {processed.missing_data}. Need to fetch additional data."
Feedback(processed) ==
    <<"Missing data: ", processed.missing_data, ". Need to fetch additional data.">>

\* faulty variant: the counter is compared with > instead of >=
evaluate_data_late(st) ==
    LET processed == st.processed_analysis
        iteration == Get(st, "iteration_count", 0)
    IN  IF processed.completeness_score >= Threshold \/ iteration > MaxIterations
        THEN [evaluation |-> [is_sufficient |-> TRUE, iteration |-> iteration]]
        ELSE [evaluation          |-> [is_sufficient |-> FALSE,
                                       iteration |-> iteration + 1],
              evaluation_feedback |-> Feedback(processed),
              iteration_count     |-> iteration + 1]

\* faulty variant: the counter bound is reached one evaluation early
evaluate_data_early(st) ==
    LET processed == st.processed_analysis
        iteration == Get(st, "iteration_count", 0)
    IN  IF processed.completeness_score >= Threshold \/ iteration + 1 >= MaxIterations
        THEN [evaluation |-> [is_sufficient |-> TRUE, iteration |-> iteration]]
        ELSE [evaluation          |-> [is_sufficient |-> FALSE,
                                       iteration |-> iteration + 1],
              evaluation_feedback |-> Feedback(processed),
              iteration_count     |-> iteration + 1]

\* faulty variant: the score is compared with > instead of >=
evaluate_data_strict(st) ==
    LET processed == st.processed_analysis
        iteration == Get(st, "iteration_count", 0)
    IN  IF processed.completeness_score > Threshold \/ iteration >= MaxIterations
        THEN [evaluation |-> [is_sufficient |-> TRUE, iteration |-> iteration]]
        ELSE [evaluation          |-> [is_sufficient |-> FALSE,
                                       iteration |-> iteration + 1],
              evaluation_feedback |-> Feedback(processed),
              iteration_count     |-> iteration + 1]

\* the body of evaluate_data: the update it returns
evaluate_data(st) ==
    LET processed == st.processed_analysis
        iteration == Get(st, "iteration_count", 0)
    IN  IF processed.completeness_score >= Threshold \/ iteration >= MaxIterations
        THEN [evaluation |-> [is_sufficient |-> TRUE, iteration |-> iteration]]
        ELSE [evaluation          |-> [is_sufficient |-> FALSE,
                                       iteration |-> iteration + 1],
              evaluation_feedback |-> Feedback(processed),
              iteration_count     |-> iteration + 1]

\* faulty variant: an insufficient evaluation re-runs the tools of the old plan
RouteAfterEvaluate_skip_plan(ev) == IF ev.is_sufficient THEN "generate" ELSE "execute"

\* faulty variant: an insufficient evaluation restarts the turn at UNDERSTAND
RouteAfterEvaluate_reunderstand(ev) ==
    IF ev.is_sufficient THEN "generate" ELSE "understand"

\* the conditional edge after EVALUATE: NO goes back to PLAN, YES goes on
RouteAfterEvaluate(ev) == IF ev.is_sufficient THEN "generate" ELSE "plan"

Evaluate ==
    /\ pc = "evaluate"
    /\ evaluation_out' = evaluate_data(state)
    /\ state' = Merge(state, evaluate_data(state))
    /\ scores' = Append(scores, state.processed_analysis.completeness_score)
    /\ pc' = RouteAfterEvaluate(evaluate_data(state).evaluation)
    /\ UNCHANGED <<planner_context, planner_passes, execVars>>
    /\ UNCHANGED outsideVars

----------------------------------------------------------------------------
(* GENERATE + VIZ node, STORE node *)

None == [none |-> TRUE]

\* faulty variant: the chart spec is built from the last recommended kind
generate_response_last_viz(st) ==
    LET processed == st.processed_analysis
    IN  [analysis_result    |-> [processed_data |-> processed.summary,
                                 key_insights   |-> processed.key_insights,
                                 user_query     |-> st.messages[Len(st.messages)]],
         visualization_spec |-> IF processed.recommended_viz # <<>>
                                THEN [type |-> processed.recommended_viz[
                                                 Len(processed.recommended_viz)],
                                      data |-> processed.summary]
                                ELSE None]

\* generate_response: the text comes from the summary and the insights of
\* the processed analysis; the chart spec from the first recommended kind
generate_response(st) ==
    LET processed == st.processed_analysis
    IN  [analysis_result    |-> [processed_data |-> processed.summary,
                                 key_insights   |-> processed.key_insights,
                                 user_query     |-> st.messages[Len(st.messages)]],
         visualization_spec |-> IF processed.recommended_viz # <<>>
                                THEN [type |-> processed.recommended_viz[1],
                                      data |-> processed.summary]
                                ELSE None]

Generate ==
    /\ pc = "generate"
    /\ state' = Merge(state, generate_response(state))
    /\ pc' = "store"
    /\ UNCHANGED <<planner_context, planner_passes, evaluation_out, scores, execVars>>
    /\ UNCHANGED outsideVars

\* saving insights touches nothing of the turn
Store ==
    /\ pc = "store"
    /\ pc' = "done"
    /\ UNCHANGED <<state, planner_context, planner_passes, evaluation_out, scores, execVars>>
    /\ UNCHANGED outsideVars

----------------------------------------------------------------------------
(* The turn *)

\* null, for an id and for a socket reference
NoSession == 0
NoSocket == 0
\* localStorage.getItem returns null: nothing was ever stored
NoItem == [item |-> "none"]
\* currentArtifact: null
null == [null |-> TRUE]

\* no exception has left the graph and the clock has not run out
NoFault == exc = "none" /\ expired = FALSE

\* the client before the page has loaded: the initial chat store, an empty
\* input box and the hook's initial state
ClientInit ==
    /\ sessions = <<>>
    /\ activeSessionId = NoSession
    /\ isStreaming = FALSE
    /\ idCounter = 0
    /\ input = ""
    /\ wsRef = NoSocket
    /\ sockets = <<>>
    /\ isConnected = FALSE
    /\ hookStreaming = FALSE
    /\ stored = NoItem
    /\ saveTimers = 0
    /\ currentArtifact = null
    /\ artifactPanelOpen = FALSE

\* the graph at the start of a turn
GraphInit ==
    /\ pc = "understand"
    /\ state = [messages |-> <<"question">>]
    /\ planner_context = EmptyDict
    /\ planner_passes = 0
    /\ evaluation_out = EmptyDict
    /\ scores = <<>>
    /\ epc = "idle"
    /\ gi = 0
    /\ tasks = <<>>
    /\ results = EmptyDict
    /\ gathered = <<>>

Init ==
    /\ NoFault
    /\ ClientInit
    /\ GraphInit

ExecuteNode ==
    \/ ExecuteBegin
    \/ StartGroup
    \/ TaskResolve
    \/ JoinGroup
    \/ ExecuteReturn

Next ==
    \/ understand_query
    \/ plan_data_retrieval
    \/ ExecuteNode
    \/ process_data
    \/ Evaluate
    \/ Generate
    \/ Store

Spec == Init /\ [][Next]_vars

\* every node that can run does run
FairSpec == Spec /\ WF_vars(Next)

----------------------------------------------------------------------------
(* Model calls that raise *)

\* what a call of the model can raise: its answer does not conform to the
\* output schema, or no provider can be reached (the router hands out the
\* local client as its last resort without asking whether it is available)
StructuredCallErrors == {"ValidationError", "ConnectionError"}
TextCallErrors == {"ConnectionError"}

\* a node has no try/except: an exception of its awaited model call leaves
\* the node, and the graph run with it, before anything is returned
Raise(e) ==
    /\ exc' = e
    /\ pc' = "error"
    /\ UNCHANGED <<state, planner_context, planner_passes, evaluation_out,
                   scores, execVars, expired, uiVars>>

\* understand_query: await llm.invoke_structured(...) raises
understand_query_raises ==
    /\ pc = "understand"
    /\ \E e \in StructuredCallErrors : Raise(e)

\* plan_data_retrieval: await llm.invoke_structured(...) raises
plan_data_retrieval_raises ==
    /\ pc = "plan"
    /\ \E e \in StructuredCallErrors : Raise(e)

\* faulty variant: the failed text call is swallowed and an empty answer is
\* returned in its place
generate_response_swallows ==
    /\ pc = "generate"
    /\ \E e \in TextCallErrors : exc' = e
    /\ state' = Merge(state, [analysis_result |-> <<>>,
                              visualization_spec |-> None])
    /\ pc' = "store"
    /\ UNCHANGED <<planner_context, planner_passes, evaluation_out,
                   scores, execVars, expired, uiVars>>

\* generate_response: await llm.invoke(...) raises
generate_response_raises ==
    /\ pc = "generate"
    /\ \E e \in TextCallErrors : Raise(e)

FaultNext ==
    \/ Next
    \/ understand_query_raises
    \/ plan_data_retrieval_raises
    \/ generate_response_raises

\* the turn, model calls that raise included
FaultSpec == Init /\ [][FaultNext]_vars

\* execute_tools on its own, given any plan; it never reads depends_on, so
\* the plans carry none
ExecutorPlans == DataPlan(MaxCalls, {{}})

\* the understanding is no input of execute_tools
ExecutorUnderstanding == [query_type |-> "comparison", metrics |-> Ids]

ExecInit ==
    /\ NoFault
    /\ ClientInit
    /\ pc = "execute"
    /\ \E p \in ExecutorPlans :
        state = [messages |-> <<"question">>,
                 query_understanding |-> ExecutorUnderstanding, data_plan |-> p]
    /\ planner_context = [understanding |-> ExecutorUnderstanding,
                          previous_feedback |-> <<>>]
    /\ planner_passes = 1
    /\ evaluation_out = EmptyDict
    /\ scores = <<>>
    /\ epc = "idle"
    /\ gi = 0
    /\ tasks = <<>>
    /\ results = EmptyDict
    /\ gathered = <<>>

ExecNext == ExecuteNode

ExecSpec == ExecInit /\ [][ExecNext]_vars

----------------------------------------------------------------------------
(* The clock *)

\* perCallTimeout passes for a call that is still running; execute_tools
\* awaits the bare gather, so nothing in it reacts
perCallTimeoutElapses ==
    /\ pc = "execute" /\ epc = "gather"
    /\ \E i \in 1..Len(tasks) :
        /\ tasks[i].st = "running" /\ ~tasks[i].overdue
        /\ tasks' = [tasks EXCEPT ![i].overdue = TRUE]
    /\ UNCHANGED <<pc, state, planner_context, planner_passes, evaluation_out,
                   scores, epc, gi, results, gathered, exc, expired, uiVars>>

\* overallTurnDeadline passes while a group is running; neither
\* execute_tools nor the graph reads a clock
overallTurnDeadlineExpires ==
    /\ pc = "execute" /\ epc = "gather"
    /\ ~expired
    /\ expired' = TRUE
    /\ UNCHANGED <<pc, state, planner_context, planner_passes, evaluation_out,
                   scores, execVars, exc, uiVars>>

TimedExecNext ==
    \/ ExecuteNode
    \/ perCallTimeoutElapses
    \/ overallTurnDeadlineExpires

\* execute_tools on its own, with the clock running
TimedExecSpec == ExecInit /\ [][TimedExecNext]_vars

TypeOK ==
    /\ pc \in {"understand", "plan", "execute", "process", "evaluate",
               "generate", "store", "done", "error"}
    /\ planner_passes \in 0..(MaxIterations + 1)
    /\ epc \in {"idle", "for", "gather"}
    /\ exc \in {"none", "ValidationError", "ConnectionError"}
    /\ expired \in BOOLEAN
    /\ isStreaming \in BOOLEAN /\ isConnected \in BOOLEAN
    /\ hookStreaming \in BOOLEAN
    /\ wsRef \in 0..Len(sockets)
    /\ activeSessionId \in 0..idCounter
    /\ saveTimers \in Nat
    /\ artifactPanelOpen \in BOOLEAN

----------------------------------------------------------------------------
(* Plan invariants *)

CallIds(plan) == {plan.tool_calls[i].id : i \in 1..Len(plan.tool_calls)}

GroupedIds(plan) == UNION {Range(plan.parallel_groups[g]) :
                              g \in 1..Len(plan.parallel_groups)}

\* the indices of the groups an id is listed in
GroupsOf(plan, id) ==
    {g \in 1..Len(plan.parallel_groups) : id \in Range(plan.parallel_groups[g])}

\* how often an id is listed across all groups
Occurrences(plan, id) ==
    Cardinality({<<g, k>> \in (1..Len(plan.parallel_groups)) \X (1..SumLen(plan.parallel_groups)) :
                    /\ k <= Len(plan.parallel_groups[g])
                    /\ plan.parallel_groups[g][k] = id})

\* the ids a call id reaches along depends_on in one or more steps
RECURSIVE ReachIn(_, _, _)
ReachIn(plan, from, n) ==
    LET direct == UNION {plan.tool_calls[i].depends_on :
                            i \in {j \in 1..Len(plan.tool_calls) :
                                      plan.tool_calls[j].id \in from}}
    IN  IF n = 0 THEN {} ELSE direct \cup ReachIn(plan, direct, n - 1)

Acyclic(plan) ==
    \A id \in CallIds(plan) : id \notin ReachIn(plan, {id}, Cardinality(Ids))

PlanValid(plan) ==
    /\ GroupedIds(plan) = CallIds(plan)
    /\ \A i, j \in 1..Len(plan.tool_calls) :
          plan.tool_calls[i].id = plan.tool_calls[j].id => i = j
    /\ \A id \in CallIds(plan) : Occurrences(plan, id) = 1
    /\ Acyclic(plan)
    /\ \A i \in 1..Len(plan.tool_calls) :
          \A d \in plan.tool_calls[i].depends_on :
              /\ GroupsOf(plan, d) # {}
              /\ \A gd \in GroupsOf(plan, d) :
                    \A gc \in GroupsOf(plan, plan.tool_calls[i].id) : gd < gc

----------------------------------------------------------------------------
(* Claims *)

TerminalEvaluation ==
    "evaluation" \in DOMAIN state /\ state.evaluation.is_sufficient

\* under fair scheduling every turn reaches a terminal evaluation
LoopTerminates == <>TerminalEvaluation

\* C1: the Evaluator -> Planner loop is bounded: the PLAN node runs at most
\* MaxIterations + 1 times in a turn, once the evaluation of pass
\* MaxIterations + 1 has been made the evaluation is terminal, and short of
\* a terminal evaluation the turn can always take a further step.
C1_LoopBounded ==
    /\ planner_passes <= MaxIterations + 1
    /\ (planner_passes = MaxIterations + 1 /\ Len(scores) = planner_passes)
          => TerminalEvaluation
    /\ ~TerminalEvaluation => ENABLED Next

\* a turn that took all MaxIterations + 1 planner passes and ended
C1_Witness ==
    /\ pc = "done"
    /\ planner_passes = MaxIterations + 1
    /\ TerminalEvaluation

\* the group of the for loop is running: its tasks have been started
GroupRunning == pc = "execute" /\ epc = "gather"

\* every group before the running one has returned a result for each of
\* its calls
EarlierGroupsResolved ==
    /\ Len(gathered) = gi - 1
    /\ \A g \in 1..(gi - 1) :
          gathered[g] = [i \in 1..Len(GroupCalls(state.data_plan, state.data_plan.parallel_groups[g])) |->
                            GroupCalls(state.data_plan, state.data_plan.parallel_groups[g])[i].id]

\* the group boundary is a join, whatever the plan
GroupBoundaryIsJoin == GroupRunning => EarlierGroupsResolved

\* C2: while the calls of a group are running every earlier group has fully
\* resolved, and every group holding a call that a running call depends on
\* is among those resolved groups.
C2_JoinAndDependencyOrder ==
    GroupRunning =>
        /\ EarlierGroupsResolved
        /\ \A i \in 1..Len(state.data_plan.tool_calls) :
              state.data_plan.tool_calls[i].id \in Range(state.data_plan.parallel_groups[gi]) =>
                  \A d \in state.data_plan.tool_calls[i].depends_on :
                      \A gd \in GroupsOf(state.data_plan, d) : gd < gi

C4_PlanValidAtExecutor ==
    pc = "execute" => PlanValid(state.data_plan)

\* the iteration counter of the graph state
IterationCount(st) == Get(st, "iteration_count", 0)

\* the transition an evaluation must make, from the score and the counter
EvaluatorRule ==
    LET score == state.processed_analysis.completeness_score
        iteration == IterationCount(state)
    IN  IF score >= Threshold \/ iteration >= MaxIterations
        THEN /\ state'.evaluation = [is_sufficient |-> TRUE, iteration |-> iteration]
             /\ IterationCount(state') = iteration
             /\ "evaluation_feedback" \notin DOMAIN evaluation_out'
             /\ pc' = "generate"
        ELSE /\ state'.evaluation = [is_sufficient |-> FALSE, iteration |-> iteration + 1]
             /\ IterationCount(state') = iteration + 1
             /\ state'.evaluation_feedback = Feedback(state.processed_analysis)
             /\ pc' = "plan"

\* C5: every evaluation follows the rule: a score at or above the threshold
\* ends the loop whatever the counter is, else a counter at MaxIterations
\* ends it, else the counter grows by exactly one, feedback is produced and
\* the Planner runs next; in every step the counter does not decrease and
\* stays at or below MaxIterations.
C5_EvaluatorRule ==
    [][/\ pc = "evaluate" => EvaluatorRule
       /\ IterationCount(state') >= IterationCount(state)
       /\ IterationCount(state') <= MaxIterations]_vars

\* all three branches of the rule have been taken in one turn: two
\* insufficient evaluations, then the counter ended the loop below the
\* threshold
C5_Witness ==
    /\ pc = "generate"
    /\ Len(scores) = MaxIterations + 1
    /\ scores[Len(scores)] < Threshold
    /\ IterationCount(state) = MaxIterations

AllBelowThreshold ==
    /\ scores # <<>>
    /\ \A i \in 1..Len(scores) : scores[i] < Threshold

AnswerProduced == "analysis_result" \in DOMAIN state

\* C6 as stated: with completeness below the threshold on every pass the
\* turn ends with an answer and the PLAN node never runs a third time.
C6_NoThirdPlannerPass ==
    AllBelowThreshold =>
        /\ planner_passes <= MaxIterations
        /\ pc = "done" => AnswerProduced /\ TerminalEvaluation

\* C6 amended: with completeness below the threshold on every pass the
\* PLAN node never runs a fourth time, and the turn ends with an answer
\* after exactly MaxIterations + 1 planner passes, the loop having been
\* ended by the counter at MaxIterations.
C6_NoFourthPlannerPass ==
    AllBelowThreshold =>
        /\ planner_passes <= MaxIterations + 1
        /\ pc = "done" =>
              /\ planner_passes = MaxIterations + 1
              /\ Len(scores) = MaxIterations + 1
              /\ AnswerProduced
              /\ state.evaluation = [is_sufficient |-> TRUE, iteration |-> MaxIterations]

\* a turn has ended whose every pass stayed below the threshold
C6_Witness ==
    /\ pc = "done"
    /\ AllBelowThreshold
    /\ AnswerProduced

\* the loop was ended by the counter, not by the score
Exhausted ==
    /\ TerminalEvaluation
    /\ scores # <<>>
    /\ scores[Len(scores)] < Threshold

\* the final result carries a low-confidence flag
FlaggedLowConfidence ==
    \E k \in DOMAIN state :
        k \in {"low_confidence", "exhausted", "confidence_flag"}

\* C7: a turn whose loop ended EXHAUSTED still produces a final answer, and
\* the final answer is flagged low-confidence exactly when the loop ended
\* EXHAUSTED.
C7_ExhaustedIsFlagged ==
    pc = "done" =>
        /\ AnswerProduced
        /\ Exhausted <=> FlaggedLowConfidence

\* C8: an evaluation returns feedback only when it is not sufficient; the
\* first planner call of a turn gets the empty feedback, and every later
\* planner call gets the feedback the evaluation just before it returned.
C8_FeedbackChannel ==
    /\ "evaluation" \in DOMAIN evaluation_out =>
          ("evaluation_feedback" \in DOMAIN evaluation_out
              => ~evaluation_out.evaluation.is_sufficient)
    /\ (planner_passes = 1 /\ pc # "plan") =>
          planner_context.previous_feedback = <<>>
    /\ (planner_passes > 1 /\ pc \in {"execute", "process", "evaluate"}) =>
          /\ "evaluation_feedback" \in DOMAIN evaluation_out
          /\ planner_context.previous_feedback = evaluation_out.evaluation_feedback
          /\ planner_context.previous_feedback # <<>>

\* the planner has run a second time, with the feedback of the first
\* evaluation
C8_Witness ==
    /\ pc = "execute"
    /\ planner_passes = 2
    /\ planner_context.previous_feedback = evaluation_out.evaluation_feedback

\* the results of a returned executor, for a plan that is valid
ResultsKeyedByOwnCall ==
    /\ DOMAIN state.raw_data = CallIds(state.data_plan)
    /\ \A id \in DOMAIN state.raw_data :
          /\ state.raw_data[id].kind \in {"payload", "error"}
          /\ state.raw_data[id].from = id

\* C9: after the executor has returned (from a plan that satisfies the plan
\* invariants) raw_data has exactly the call ids of the plan as keys, and
\* the entry under an id is the outcome of that call's own invocation.
C9_ResultsKeyedByOwnCall ==
    (pc = "process" /\ PlanValid(state.data_plan)) => ResultsKeyedByOwnCall

\* the edges of the graph
StageEdges ==
    {<<"understand", "plan">>, <<"plan", "execute">>, <<"execute", "process">>,
     <<"process", "evaluate">>, <<"evaluate", "plan">>, <<"evaluate", "generate">>,
     <<"generate", "store">>, <<"store", "done">>}

\* C10: the node changes only along the edges Understanding -> Planner ->
\* Executor -> Aggregator -> Evaluator -> (Planner | Generator) -> store ->
\* done, Evaluator -> Planner being the only backward edge; the executor's
\* tasks and locals are live only while the graph is at the EXECUTE node,
\* so no other stage runs beside it.
C10_StageOrder ==
    [][/\ pc' # pc => <<pc, pc'>> \in StageEdges
       /\ (epc' # "idle" \/ tasks' # <<>>) => pc' = "execute"
       /\ state' # state => (pc' # pc \/ pc = "execute")]_vars

\* a turn that went back to the Planner once and then ran to its end
C10_Witness ==
    /\ pc = "done"
    /\ planner_passes = 2

----------------------------------------------------------------------------
(* C11 *)

\* the understanding, once written to the state
HasUnderstanding(st) == "query_understanding" \in DOMAIN st

\* C11: the Understanding stage runs exactly once per turn, however many
\* Evaluator->Planner iterations occur: the turn starts in it, no step
\* re-enters it, and once the QueryUnderstanding is written no later step
\* changes it; every Planner pass reads that same understanding.
C11_UnderstandOnce ==
    [][/\ pc # "understand" => pc' # "understand"
       /\ pc = "understand" => ~HasUnderstanding(state)
       /\ HasUnderstanding(state) =>
            /\ HasUnderstanding(state')
            /\ state'.query_understanding = state.query_understanding
       /\ planner_passes' > planner_passes =>
            planner_context'.understanding = state'.query_understanding]_vars

\* a second Planner pass is about to run on the understanding of the first
C11_Witness ==
    /\ pc = "plan"
    /\ planner_passes = 2
    /\ planner_context.understanding = state.query_understanding

----------------------------------------------------------------------------
(* C12 *)

\* C12: when the structured call of the Understanding stage fails schema
\* validation on every attempt, the stage still returns a QueryUnderstanding
\* (the default one): the graph never is past UNDERSTAND without one, and a
\* validation failure there never ends the turn.
C12_UnderstandingFallback ==
    /\ (pc # "understand" /\ exc # "ConnectionError") => HasUnderstanding(state)
    /\ (exc = "ValidationError" /\ ~HasUnderstanding(state)) => pc # "error"

----------------------------------------------------------------------------
(* C13 *)

\* the fallback plan: one tool call, alone in one group
IsFallbackPlan(plan) ==
    /\ Len(plan.tool_calls) = 1
    /\ plan.parallel_groups = <<(<<plan.tool_calls[1].id>>)>>
    /\ plan.tool_calls[1].depends_on = {}

\* C13: a plan that violates the plan invariants is not what the Planner
\* returns: after the one retry the Planner stores either a plan that
\* satisfies the invariants or the fallback plan with exactly one tool call
\* in exactly one group.
C13_InvalidPlanReplaced ==
    [][planner_passes' > planner_passes =>
        \/ PlanValid(state'.data_plan)
        \/ IsFallbackPlan(state'.data_plan)]_vars

----------------------------------------------------------------------------
(* C14, C15 *)

\* the calls of the running group that have not resolved
Unresolved == {i \in 1..Len(tasks) : tasks[i].st = "running"}

\* C14: each tool call has a bounded wait: a call that has not resolved
\* within perCallTimeout is recorded as a failure with code timeout, and a
\* group whose other calls have resolved then counts as resolved, so that
\* the next group can start.
C14_TimeoutRecorded ==
    /\ \A i \in 1..Len(tasks) : tasks[i].overdue => tasks[i].st = "timeout"
    /\ (pc = "execute" /\ epc = "gather"
            /\ \A i \in Unresolved : tasks[i].overdue) => ENABLED JoinGroup

\* C15: once the overall turn deadline has expired during group k, the
\* calls in flight may still resolve, but no later group is started and
\* neither the Planner nor the Evaluator runs again before the Generator.
C15_DeadlineShortCircuit ==
    [][expired =>
        /\ ~(epc = "for" /\ epc' = "gather")
        /\ pc' \in {"plan", "evaluate"} => pc' = pc]_vars

----------------------------------------------------------------------------
(* Lifecycle events: what a step of the turn emits to the event sink *)

Stages == {"understand", "plan", "execute", "process", "evaluate",
           "generate", "store"}

\* stage-entered: the graph moves to node s
StageEntered(s) == pc # s /\ pc' = s

\* tool-call-started: the gather call starts task i of a group
ToolCallStarted(i) ==
    /\ epc = "for" /\ epc' = "gather"
    /\ i \in 1..Len(tasks')

\* tool-call-finished: task i of the running group resolves
ToolCallFinished(i) ==
    /\ i \in 1..Len(tasks) /\ i \in 1..Len(tasks')
    /\ tasks[i].st = "running" /\ tasks'[i].st # "running"

\* evaluation-result: the EVALUATE node returns
EvaluationResult == pc = "evaluate" /\ pc' # "evaluate"

\* final-answer-ready: the run of the graph ends
FinalAnswerReady == pc # "done" /\ pc' = "done"

\* error: an exception leaves the run of the graph
ErrorEvent == pc # "error" /\ pc' = "error"

\* the turn has emitted its terminal event
Ended == pc \in {"done", "error"}

----------------------------------------------------------------------------
(* C16, C17 *)

OrderedStep ==
    /\ (pc' \in Stages /\ StageEntered(pc')) => <<pc, pc'>> \in StageEdges
    /\ Unresolved # {} =>
            /\ pc' = pc /\ epc' = epc
            /\ ~EvaluationResult /\ ~FinalAnswerReady /\ ~ErrorEvent
            /\ \A i \in 1..Len(tasks) : tasks[i].st # "running" =>
                    (~ToolCallStarted(i) /\ tasks'[i] = tasks[i])
    /\ EvaluationResult => tasks = <<>>
    /\ ~Ended
    /\ ~(FinalAnswerReady /\ ErrorEvent)

----------------------------------------------------------------------------
(* C18 *)

\* the kinds of chart the analysis of the answered pass recommends
RecommendedViz == state.processed_analysis.recommended_viz

\* C18 as claimed: the chart spec is built from the first recommended kind,
\* and when none is recommended the result has no visualization field at
\* all, while the answer text is there.
C18_VizFieldOmitted ==
    AnswerProduced =>
        /\ RecommendedViz # <<>> =>
                state.visualization_spec.type = RecommendedViz[1]
        /\ RecommendedViz = <<>> => "visualization_spec" \notin DOMAIN state

\* C18, amended: the chart spec is built from the first recommended kind
\* and from no other; when none is recommended no spec is built and the
\* result carries the visualization field with the value None, never a
\* placeholder spec; the answer text is there in both cases.
C18_VizFromFirstEntry ==
    AnswerProduced =>
        /\ "visualization_spec" \in DOMAIN state
        /\ RecommendedViz # <<>> =>
                /\ state.visualization_spec # None
                /\ state.visualization_spec.type = RecommendedViz[1]
        /\ RecommendedViz = <<>> => state.visualization_spec = None
        /\ state.analysis_result.processed_data = state.processed_analysis.summary

\* an answer to a question for which no chart is recommended
C18_Witness ==
    /\ AnswerProduced
    /\ RecommendedViz = <<>>
    /\ state.visualization_spec = None

----------------------------------------------------------------------------
(* C19 *)

----------------------------------------------------------------------------
(* The client: chat store, message input, sidebar and WebSocket hook *)

\* most ids generateId hands out, most sockets opened, most tokens the
\* server streams on one socket
MaxSessionIds == 2
MaxSockets == 2
MaxTokens == 1

\* what the graph and the clock hold; the client reads none of it
serverVars == <<pc, state, planner_context, planner_passes, evaluation_out,
                scores, execVars, exc, expired>>

\* the ui store
panelVars == <<currentArtifact, artifactPanelOpen>>

\* a piece of message text and the socket it came from (0: typed or chosen
\* by the user)
Piece(from, text) == [from |-> from, text |-> text]

\* getMessages: the messages of the active session, [] when there is none
getMessages(ss, active) ==
    IF \E i \in 1..Len(ss) : ss[i].id = active
    THEN ss[CHOOSE i \in 1..Len(ss) : ss[i].id = active].messages
    ELSE <<>>

\* text that did not come over a socket, one piece per character
Text(chars) == [i \in 1..Len(chars) |-> Piece(0, chars[i])]

\* cleaned.length <= 30
TitleLimit == 30

\* what the regular expression \s matches
IsSpace(c) == c.text \in {" ", "\t", "\n"}

\* content.replace(/\s+/g, ' '): every run of whitespace becomes one space
RECURSIVE collapse(_)
collapse(content) ==
    IF content = <<>> THEN <<>>
    ELSE IF ~IsSpace(Head(content))
         THEN <<Head(content)>> \o collapse(Tail(content))
    ELSE IF Len(content) > 1 /\ IsSpace(content[2])
         THEN collapse(Tail(content))
    ELSE Text(<<" ">>) \o collapse(Tail(content))

RECURSIVE trimStart(_)
trimStart(text) ==
    IF text # <<>> /\ IsSpace(Head(text)) THEN trimStart(Tail(text)) ELSE text

RECURSIVE trimEnd(_)
trimEnd(text) ==
    IF text # <<>> /\ IsSpace(text[Len(text)])
    THEN trimEnd(SubSeq(text, 1, Len(text) - 1))
    ELSE text

\* String.prototype.trim of a text made of pieces
trim(text) == trimEnd(trimStart(text))

\* faulty variant: the content is cut before it is cleaned
generateTitle_cut_first(content) ==
    trim(collapse(IF Len(content) <= TitleLimit THEN content
                  ELSE SubSeq(content, 1, TitleLimit)
                       \o Text(<<".", ".", ".">>)))

\* generateTitle: the cleaned content, cut after 30 characters
generateTitle(content) ==
    LET cleaned == trim(collapse(content))
    IN  IF Len(cleaned) <= TitleLimit THEN cleaned
        ELSE SubSeq(cleaned, 1, TitleLimit) \o Text(<<".", ".", ".">>)

\* title: 'New Chat'
NewChat == Text(<<"N", "e", "w", " ", "C", "h", "a", "t">>)

\* createSession: the new session is put in front and made active
createSession(ss, id) ==
    <<[id |-> id, title |-> NewChat, messages |-> <<>>]>> \o ss

\* saveToStorage: what JSON.stringify writes under STORAGE_KEY
saveToStorage(ss, active) == [sessions |-> ss, activeSessionId |-> active]

\* addMessage: appended to the active session, dropped when there is none;
\* the first message of a session names it when the user wrote it
addMessage(ss, active, msg) ==
    IF active = NoSession THEN ss
    ELSE [i \in 1..Len(ss) |->
            IF ss[i].id # active THEN ss[i]
            ELSE [ss[i] EXCEPT
                    !.messages = Append(@, msg),
                    !.title = IF ss[i].messages = <<>> /\ msg.role = "user"
                              THEN generateTitle(msg.content) ELSE @]]

\* appendToLastMessage: the token goes to the last message of the session
\* that is active when it arrives
appendToLastMessage(ss, active, token) ==
    IF active = NoSession THEN ss
    ELSE [i \in 1..Len(ss) |->
            IF ss[i].id # active \/ ss[i].messages = <<>> THEN ss[i]
            ELSE [ss[i] EXCEPT !.messages[Len(ss[i].messages)].content =
                                    Append(@, token)]]

\* faulty variant: the newest session is removed, whatever the id
deleteSession_newest(ss, id) == IF ss = <<>> THEN ss ELSE Tail(ss)

\* deleteSession: the session is filtered out; a deleted active session is
\* followed by the first one left, or by none
deleteSession(ss, id) == SelectSeq(ss, LAMBDA x : x.id # id)

\* faulty variant: the active id is left alone when its session is deleted
ActiveAfterDelete_keeps(ss, active, id) == active

ActiveAfterDelete(ss, active, id) ==
    IF active # id THEN active
    ELSE IF deleteSession(ss, id) # <<>> THEN deleteSession(ss, id)[1].id
    ELSE NoSession

\* ws.close(): a socket that is connecting or open starts closing
closeSocket(socks, k) ==
    IF k = NoSocket THEN socks
    ELSE [socks EXCEPT ![k].st =
            IF @ \in {"connecting", "open"} THEN "closing" ELSE @]

\* input.trim()
Trim(text) == IF text = " " THEN "" ELSE text

\* what can stand in the input box
Inputs == {"", " ", "q"}

\* handleSendMessage(content), the hook's sendMessage included: a session is
\* made if none is active, the user message and the empty assistant message
\* are added, streaming is switched on, the socket of the request before is
\* closed and a new one is created and becomes wsRef.current; createSession
\* saves at once, each addMessage starts a save timer
handleSendMessage(content) ==
    LET none == activeSessionId = NoSession
        sessionId == IF none THEN idCounter + 1 ELSE activeSessionId
        made == IF none THEN createSession(sessions, sessionId) ELSE sessions
        asked == addMessage(made, sessionId,
                     [role |-> "user", content |-> <<Piece(0, content)>>])
    IN  /\ Len(sockets) < MaxSockets
        /\ none => idCounter < MaxSessionIds
        /\ sessions' = addMessage(asked, sessionId,
                           [role |-> "assistant", content |-> <<>>])
        /\ activeSessionId' = sessionId
        /\ idCounter' = IF none THEN idCounter + 1 ELSE idCounter
        /\ isStreaming' = TRUE
        /\ sockets' = Append(closeSocket(sockets, wsRef),
                        [st |-> "connecting", session_id |-> sessionId,
                         tokens |-> 0, errored |-> FALSE])
        /\ wsRef' = Len(sockets) + 1
        /\ stored' = IF none THEN saveToStorage(made, sessionId) ELSE stored
        /\ saveTimers' = saveTimers + 2
        /\ UNCHANGED <<isConnected, hookStreaming, panelVars, serverVars>>

\* MessageInput: the textarea is disabled while the store is streaming
Disabled == isStreaming

\* onChange of the textarea, which takes no input while it is disabled
Type ==
    /\ ~Disabled
    /\ \E text \in Inputs \ {input} : input' = text
    /\ UNCHANGED <<sessions, activeSessionId, isStreaming, idCounter,
                   wsRef, sockets, isConnected, hookStreaming, stored,
                   saveTimers, panelVars, serverVars>>

\* MessageInput.handleSubmit (Enter or the send button):
\* if (trimmed && !disabled) { onSend(trimmed); setInput('') }
handleSubmit ==
    /\ Trim(input) # "" /\ ~Disabled
    /\ handleSendMessage(Trim(input))
    /\ input' = ""

\* SuggestedPrompts, shown in place of the messages while the active
\* session has none: onClick={() => onSelect(prompt.text)}
SelectPrompt ==
    /\ getMessages(sessions, activeSessionId) = <<>>
    /\ handleSendMessage("prompt")
    /\ UNCHANGED input

\* Sidebar.handleNewChat: createSession()
handleNewChat ==
    /\ idCounter < MaxSessionIds
    /\ sessions' = createSession(sessions, idCounter + 1)
    /\ activeSessionId' = idCounter + 1
    /\ idCounter' = idCounter + 1
    /\ stored' = saveToStorage(sessions', activeSessionId')
    /\ UNCHANGED <<isStreaming, input, wsRef, sockets, isConnected,
                   hookStreaming, saveTimers, panelVars, serverVars>>

\* Sidebar.handleSelectSession(id): switchSession(id)
handleSelectSession ==
    /\ \E i \in 1..Len(sessions) :
        /\ sessions[i].id # activeSessionId
        /\ activeSessionId' = sessions[i].id
    /\ stored' = saveToStorage(sessions, activeSessionId')
    /\ UNCHANGED <<sessions, isStreaming, idCounter, input, wsRef, sockets,
                   isConnected, hookStreaming, saveTimers, panelVars,
                   serverVars>>

\* the delete button of a session in the sidebar: deleteSession(id)
handleDeleteSession ==
    /\ \E i \in 1..Len(sessions) :
        /\ sessions' = deleteSession(sessions, sessions[i].id)
        /\ activeSessionId' =
                ActiveAfterDelete(sessions, activeSessionId, sessions[i].id)
    /\ stored' = saveToStorage(sessions', activeSessionId')
    /\ UNCHANGED <<isStreaming, idCounter, input, wsRef, sockets,
                   isConnected, hookStreaming, saveTimers, panelVars,
                   serverVars>>

\* ws.onopen: setIsConnected(true); setIsStreaming(true); ws.send(...)
WsOpen ==
    /\ \E k \in 1..Len(sockets) :
        /\ sockets[k].st = "connecting"
        /\ sockets' = [sockets EXCEPT ![k].st = "open"]
    /\ isConnected' = TRUE
    /\ hookStreaming' = TRUE
    /\ UNCHANGED <<sessions, activeSessionId, isStreaming, idCounter, input,
                   wsRef, stored, saveTimers, panelVars, serverVars>>

\* ws.onmessage, type 'token': onToken -> appendToLastMessage(token)
WsToken ==
    /\ \E k \in 1..Len(sockets) :
        /\ sockets[k].st = "open" /\ sockets[k].tokens < MaxTokens
        /\ sockets' = [sockets EXCEPT ![k].tokens = @ + 1]
        /\ sessions' = appendToLastMessage(sessions, activeSessionId,
                                           Piece(k, "token"))
    /\ UNCHANGED <<activeSessionId, isStreaming, idCounter, input, wsRef,
                   isConnected, hookStreaming, stored, saveTimers, panelVars,
                   serverVars>>

\* ws.onmessage, type 'error': onError -> setStreaming(false), which saves,
\* and then the error text appended to the last message; the socket stays
\* open
WsServerError ==
    /\ \E k \in 1..Len(sockets) :
        /\ sockets[k].st = "open" /\ ~sockets[k].errored
        /\ sockets' = [sockets EXCEPT ![k].errored = TRUE]
        /\ sessions' = appendToLastMessage(sessions, activeSessionId,
                                           Piece(k, "error"))
    /\ isStreaming' = FALSE
    /\ stored' = saveToStorage(sessions, activeSessionId)
    /\ UNCHANGED <<activeSessionId, idCounter, input, wsRef, isConnected,
                   hookStreaming, saveTimers, panelVars, serverVars>>

\* ws.onmessage, type 'done': setIsStreaming(false); onDone ->
\* setStreaming(false); ws.close()
WsDone ==
    /\ \E k \in 1..Len(sockets) :
        /\ sockets[k].st = "open"
        /\ sockets' = closeSocket(sockets, k)
    /\ hookStreaming' = FALSE
    /\ isStreaming' = FALSE
    /\ stored' = saveToStorage(sessions, activeSessionId)
    /\ UNCHANGED <<sessions, activeSessionId, idCounter, input, wsRef,
                   isConnected, saveTimers, panelVars, serverVars>>

\* ws.onerror: onError('Connection error. Please try again.');
\* setIsStreaming(false); the browser then closes the socket
WsError ==
    /\ \E k \in 1..Len(sockets) :
        /\ sockets[k].st \in {"connecting", "open"}
        /\ sockets' = closeSocket(sockets, k)
        /\ sessions' = appendToLastMessage(sessions, activeSessionId,
                                           Piece(k, "error"))
    /\ isStreaming' = FALSE
    /\ hookStreaming' = FALSE
    /\ stored' = saveToStorage(sessions, activeSessionId)
    /\ UNCHANGED <<activeSessionId, idCounter, input, wsRef, isConnected,
                   saveTimers, panelVars, serverVars>>

\* ws.onclose, after a close by either side: setIsConnected(false);
\* setIsStreaming(false); wsRef.current = null
WsClose ==
    /\ \E k \in 1..Len(sockets) :
        /\ sockets[k].st \in {"open", "closing"}
        /\ sockets' = [sockets EXCEPT ![k].st = "closed"]
    /\ isConnected' = FALSE
    /\ hookStreaming' = FALSE
    /\ wsRef' = NoSocket
    /\ UNCHANGED <<sessions, activeSessionId, isStreaming, idCounter, input,
                   stored, saveTimers, panelVars, serverVars>>

\* setTimeout(() => get().saveToStorage(), 500): the 500 ms of one debounced
\* save have passed
SaveTimerFires ==
    /\ saveTimers > 0
    /\ saveTimers' = saveTimers - 1
    /\ stored' = saveToStorage(sessions, activeSessionId)
    /\ UNCHANGED <<sessions, activeSessionId, isStreaming, idCounter, input,
                   wsRef, sockets, isConnected, hookStreaming, panelVars,
                   serverVars>>

\* the page once mounted with nothing in localStorage: loadFromStorage has
\* created the first session
UiInit ==
    /\ NoFault
    /\ GraphInit
    /\ sessions = createSession(<<>>, 1)
    /\ activeSessionId = 1
    /\ idCounter = 1
    /\ isStreaming = FALSE
    /\ input = ""
    /\ wsRef = NoSocket
    /\ sockets = <<>>
    /\ isConnected = FALSE
    /\ hookStreaming = FALSE
    /\ stored = saveToStorage(createSession(<<>>, 1), 1)
    /\ saveTimers = 0
    /\ currentArtifact = null
    /\ artifactPanelOpen = FALSE

UiNext ==
    \/ Type
    \/ handleSubmit
    \/ SelectPrompt
    \/ handleNewChat
    \/ handleSelectSession
    \/ handleDeleteSession
    \/ WsOpen
    \/ WsToken
    \/ WsServerError
    \/ WsDone
    \/ WsError
    \/ WsClose
    \/ SaveTimerFires

\* the chat of the client on its own: input, sessions, sockets and saves
\* (visualization messages and the panel are in PanelSpec)
UiSpec == UiInit /\ [][UiNext]_vars

----------------------------------------------------------------------------
(* C20 *)

\* C20: input is disabled while streaming: while the chat store's
\* isStreaming is true no step of the client starts a request, that is
\* handleSendMessage does not run and no further WebSocket is created.
C20_NoSendWhileStreaming ==
    [][isStreaming => Len(sockets') = Len(sockets)]_vars

----------------------------------------------------------------------------
(* C21 *)

\* a request has been made and none is running any more: every socket has
\* started closing (after 'done' or a socket error) or has delivered a
\* server 'error', and the store is not streaming
TurnEnded ==
    /\ sockets # <<>>
    /\ ~isStreaming
    /\ \A k \in 1..Len(sockets) :
            sockets[k].st \in {"closing", "closed"} \/ sockets[k].errored

\* C21: chat history persists across page refreshes: once a turn has ended
\* (by 'done' or by an error) and no debounced save is pending, the item in
\* localStorage holds exactly the sessions of the store, with the whole
\* streamed assistant text and any appended error text.
C21_HistoryPersisted ==
    (TurnEnded /\ saveTimers = 0) =>
        stored = saveToStorage(sessions, activeSessionId)

----------------------------------------------------------------------------
(* The ui store and the artifact panel *)

\* ChartType
ChartTypes == {"line", "bar", "scatter", "table", "area", "box_plot",
               "histogram", "violin_plot", "lap_progression",
               "lap_comparison", "lap_time_comparison", "delta_line",
               "tire_strategy", "gap_evolution", "position_battle",
               "sector_heatmap", "sector_comparison", "race_progress",
               "bar_chart"}

\* most visualization ids
MaxViz == 3

\* Visualization, as far as the stores and the panel read it
Vizs == [id : 1..MaxViz, type : ChartTypes]

\* the chat store, the input and the hook
chatVars == <<sessions, activeSessionId, isStreaming, idCounter, input,
              wsRef, sockets, isConnected, hookStreaming, stored,
              saveTimers>>

\* faulty variant: the artifact is replaced and the panel left as it was
setArtifact_keeps_panel(viz) ==
    /\ currentArtifact' = viz
    /\ UNCHANGED artifactPanelOpen

\* setArtifact: set({currentArtifact: viz, artifactPanelOpen: viz !== null})
setArtifact(viz) ==
    /\ currentArtifact' = viz
    /\ artifactPanelOpen' = (viz # null)

\* clearArtifact
clearArtifact ==
    /\ currentArtifact' = null
    /\ artifactPanelOpen' = FALSE

\* toggleArtifactPanel
toggleArtifactPanel ==
    /\ artifactPanelOpen' = ~artifactPanelOpen
    /\ UNCHANGED currentArtifact

\* setArtifactPanelOpen
setArtifactPanelOpen(open) ==
    /\ artifactPanelOpen' = open
    /\ UNCHANGED currentArtifact

\* the ui store called by any component, with any argument
CallSetArtifact ==
    /\ \E viz \in Vizs \cup {null} : setArtifact(viz)
    /\ UNCHANGED <<chatVars, serverVars>>

CallClearArtifact == clearArtifact /\ UNCHANGED <<chatVars, serverVars>>

CallToggleArtifactPanel ==
    toggleArtifactPanel /\ UNCHANGED <<chatVars, serverVars>>

CallSetArtifactPanelOpen ==
    /\ \E open \in BOOLEAN : setArtifactPanelOpen(open)
    /\ UNCHANGED <<chatVars, serverVars>>

UiStoreNext ==
    \/ CallSetArtifact
    \/ CallClearArtifact
    \/ CallToggleArtifactPanel
    \/ CallSetArtifactPanelOpen

\* the ui store on its own, from the state create() gives it
UiStoreSpec == Init /\ [][UiStoreNext]_vars

----------------------------------------------------------------------------
(* C22 *)

\* C22: the artifact panel is hidden by default and opens whenever
\* visualization data arrives: setArtifact(v) with v non-null leaves
\* currentArtifact = v and artifactPanelOpen = true whatever the panel was
\* before; clearArtifact and setArtifact(null) leave currentArtifact = null
\* and artifactPanelOpen = false.  Hence no step installs another artifact
\* without opening the panel, and none removes the artifact without closing
\* it.
C22_ArtifactOpensPanel ==
    /\ ~artifactPanelOpen /\ currentArtifact = null
    /\ [][/\ \A viz \in Vizs :
                setArtifact(viz) =>
                    currentArtifact' = viz /\ artifactPanelOpen' = TRUE
          /\ (clearArtifact \/ setArtifact(null)) =>
                    currentArtifact' = null /\ artifactPanelOpen' = FALSE
          /\ (currentArtifact' # currentArtifact /\ currentArtifact' # null)
                    => artifactPanelOpen' = TRUE
          /\ (currentArtifact' # currentArtifact /\ currentArtifact' = null)
                    => artifactPanelOpen' = FALSE]_vars

\* an artifact has arrived and the panel shows it
C22_Witness == currentArtifact \in Vizs /\ artifactPanelOpen

----------------------------------------------------------------------------
(* Loading the sessions when the page mounts *)

\* an item that JSON.parse rejects
Garbage == [item |-> "unparseable"]

\* the messages a stored session can hold
StoredMessages ==
    {<<>>,
     <<[role |-> "user", content |-> Text(<<"q">>)]>>,
     <<[role |-> "user", content |-> Text(<<"q">>)],
       [role |-> "assistant", content |-> <<Piece(1, "token")>>]>>}

\* the session lists a stored item can hold: no id twice
StoredSessions ==
    LET recs == [id : 1..MaxSessionIds, title : {NewChat},
                 messages : StoredMessages]
    IN  {ss \in UNION {[1..n -> recs] : n \in 0..MaxSessionIds} :
            \A i, k \in 1..Len(ss) : ss[i].id = ss[k].id => i = k}

\* what localStorage can hold under STORAGE_KEY when the page is opened:
\* nothing, text that is not JSON, or StoredData with any session list and
\* any activeSessionId (null, the id of a stored session, or another id)
StoredContents ==
    {NoItem, Garbage} \cup
    {saveToStorage(ss, active) :
        ss \in StoredSessions, active \in 0..MaxSessionIds}

\* loadFromStorage, in a browser: without an item, or with an item that
\* does not parse, a session is created; otherwise sessions and
\* activeSessionId are taken over as stored, and a session is created if
\* the stored list is empty
loadFromStorage ==
    LET parsed == stored \notin {NoItem, Garbage}
        loaded == IF parsed THEN stored.sessions ELSE sessions
        create == IF parsed THEN stored.sessions = <<>> ELSE TRUE
    IN  /\ sessions' = IF create THEN createSession(loaded, idCounter + 1)
                       ELSE loaded
        /\ activeSessionId' = IF create THEN idCounter + 1
                              ELSE stored.activeSessionId
        /\ idCounter' = IF create THEN idCounter + 1 ELSE idCounter
        /\ stored' = IF create
                     THEN saveToStorage(sessions', activeSessionId')
                     ELSE stored
        /\ UNCHANGED <<isStreaming, input, wsRef, sockets, isConnected,
                       hookStreaming, saveTimers, panelVars, serverVars>>

\* the page being opened: the stores as create() gives them, localStorage
\* as earlier visits (or anything else) left it, the ids 1..MaxSessionIds
\* used up
LoadInit ==
    /\ NoFault
    /\ GraphInit
    /\ sessions = <<>>
    /\ activeSessionId = NoSession
    /\ isStreaming = FALSE
    /\ idCounter = MaxSessionIds
    /\ input = ""
    /\ wsRef = NoSocket
    /\ sockets = <<>>
    /\ isConnected = FALSE
    /\ hookStreaming = FALSE
    /\ stored \in StoredContents
    /\ saveTimers = 0
    /\ currentArtifact = null
    /\ artifactPanelOpen = FALSE

LoadNext == loadFromStorage

\* the mount effect of the page
LoadSpec == LoadInit /\ [][LoadNext]_vars

----------------------------------------------------------------------------
(* C23 *)

\* getActiveSession() finds a session
HasActiveSession ==
    \E i \in 1..Len(sessions) : sessions[i].id = activeSessionId

\* C23: after loadFromStorage, whatever was stored (nothing, an empty
\* session list, valid data, unparseable or ill-shaped data), the store
\* holds at least one session and has an active session, and a new session
\* has been created exactly when the stored item held none.
C23_LoadLeavesActiveSession ==
    [][/\ sessions' # <<>>
       /\ HasActiveSession'
       /\ (idCounter' # idCounter) <=>
            (stored \in {NoItem, Garbage} \/ stored.sessions = <<>>)]_vars

----------------------------------------------------------------------------
(* The chat store called directly *)

\* most messages held by the store at a time
MaxMessages == 2

\* the messages of all sessions together
TotalMessages(ss) == SumLen([i \in 1..Len(ss) |-> ss[i].messages])

\* renameSession: the title of the session with that id is replaced
renameSession(ss, id, title) ==
    [i \in 1..Len(ss) |->
        IF ss[i].id = id THEN [ss[i] EXCEPT !.title = title] ELSE ss[i]]

\* the messages and titles callers pass
StoreMessages == {[role |-> "user", content |-> Text(<<"h", "i">>)],
                  [role |-> "assistant", content |-> <<>>]}

StoreTitles == {Text(<<"r">>)}

\* deleteSession(id), saveToStorage included
DeleteCall(id) ==
    /\ sessions' = deleteSession(sessions, id)
    /\ activeSessionId' = ActiveAfterDelete(sessions, activeSessionId, id)
    /\ stored' = saveToStorage(sessions', activeSessionId')
    /\ UNCHANGED <<isStreaming, idCounter, input, wsRef, sockets,
                   isConnected, hookStreaming, saveTimers, panelVars,
                   serverVars>>

\* deleteSession(id) for any id, that of no session included
CallDeleteSession == \E id \in 1..MaxSessionIds : DeleteCall(id)

\* clearAllSessions: everything is dropped and saved, then createSession
\* makes and saves a fresh session
clearAllSessions ==
    /\ idCounter < MaxSessionIds
    /\ sessions' = createSession(<<>>, idCounter + 1)
    /\ activeSessionId' = idCounter + 1
    /\ idCounter' = idCounter + 1
    /\ stored' = saveToStorage(sessions', activeSessionId')
    /\ UNCHANGED <<isStreaming, input, wsRef, sockets, isConnected,
                   hookStreaming, saveTimers, panelVars, serverVars>>

\* renameSession(id, title) for any id
CallRenameSession ==
    /\ \E id \in 1..MaxSessionIds, title \in StoreTitles :
        sessions' = renameSession(sessions, id, title)
    /\ stored' = saveToStorage(sessions', activeSessionId)
    /\ UNCHANGED <<activeSessionId, isStreaming, idCounter, input, wsRef,
                   sockets, isConnected, hookStreaming, saveTimers, panelVars,
                   serverVars>>

\* addMessage(msg) with a message of the given set; the save is left to a
\* timer
CallAddMessage(msgs) ==
    /\ TotalMessages(sessions) < MaxMessages
    /\ \E msg \in msgs : sessions' = addMessage(sessions, activeSessionId, msg)
    /\ saveTimers' = IF activeSessionId = NoSession THEN saveTimers
                     ELSE saveTimers + 1
    /\ UNCHANGED <<activeSessionId, isStreaming, idCounter, input, wsRef,
                   sockets, isConnected, hookStreaming, stored, panelVars,
                   serverVars>>

StoreAddMessage == CallAddMessage(StoreMessages)

StoreNext ==
    \/ handleNewChat
    \/ handleSelectSession
    \/ CallDeleteSession
    \/ clearAllSessions
    \/ CallRenameSession
    \/ StoreAddMessage
    \/ SaveTimerFires

\* the chat store on its own, from the state create() gives it
StoreSpec == Init /\ [][StoreNext]_vars

----------------------------------------------------------------------------
(* C24 *)

\* n times the character ch
Repeat(ch, n) == Text([i \in 1..n |-> ch])

\* contents of first messages: short, with runs of whitespace, of exactly
\* 30 characters, of 31, and of 31 that clean to fewer
TitleContents ==
    {Text(<<"h", "i">>),
     Text(<<" ", "\n", "h", " ", "\t", " ", "i", " ">>),
     Repeat("x", TitleLimit),
     Repeat("x", TitleLimit + 1),
     Text(<<" ", " ">>) \o Repeat("x", TitleLimit - 2) \o Text(<<" ">>)}

TitleMessages ==
    [role : {"user"}, content : TitleContents] \cup
    {[role |-> "assistant", content |-> Text(<<"o", "k">>)]}

TitleAddMessage == CallAddMessage(TitleMessages)

TitleNext ==
    \/ handleNewChat
    \/ TitleAddMessage
    \/ SaveTimerFires

\* sessions being created and written to
TitleSpec == Init /\ [][TitleNext]_vars

\* the words of a text: its longest runs without whitespace
RECURSIVE Words(_)
Words(text) ==
    IF text = <<>> THEN <<>>
    ELSE IF IsSpace(Head(text)) THEN Words(Tail(text))
    ELSE LET n == CHOOSE k \in 1..Len(text) :
                    /\ \A m \in 1..k : ~IsSpace(text[m])
                    /\ k = Len(text) \/ IsSpace(text[k + 1])
         IN  <<SubSeq(text, 1, n)>> \o Words(SubSeq(text, n + 1, Len(text)))

\* the words with one space between neighbours
RECURSIVE Join(_)
Join(words) ==
    IF words = <<>> THEN <<>>
    ELSE IF Len(words) = 1 THEN words[1]
    ELSE words[1] \o Text(<<" ">>) \o Join(Tail(words))

\* the title the first user message of a session is to give
ExpectedTitle(content) ==
    LET joined == Join(Words(content))
    IN  IF Len(joined) > TitleLimit
        THEN SubSeq(joined, 1, TitleLimit) \o Text(<<".", ".", ".">>)
        ELSE joined

\* C24: a session title is auto-generated from the first user message:
\* a step that adds a message sets the title of a session only if that
\* session is the active one, had no messages and the message has role
\* user; the title is then the whitespace-collapsed, trimmed content, cut
\* to its first 30 characters followed by '...' when longer; in every other
\* case, any later addMessage included, the title stays what it was.
C24_TitleFromFirstUserMessage ==
    [][(Len(sessions') = Len(sessions) /\ sessions' # sessions) =>
        \A i \in 1..Len(sessions) :
            LET was == sessions[i]
                now == sessions'[i]
            IN  IF /\ was.id = activeSessionId
                   /\ was.messages = <<>>
                   /\ now.messages[Len(now.messages)].role = "user"
                THEN now.title =
                        ExpectedTitle(now.messages[Len(now.messages)].content)
                ELSE now.title = was.title]_vars

\* a first message of more than 30 characters has given a cut title, and a
\* second message has followed it
C24_Witness ==
    \E i \in 1..Len(sessions) :
        /\ Len(sessions[i].messages) = 2
        /\ Len(sessions[i].title) = TitleLimit + 3

----------------------------------------------------------------------------
(* C25 *)

\* where the tokens of socket k stand: session index, message index and
\* position in the content
TokenPlaces(k) ==
    {<<i, m, n>> \in (1..Len(sessions)) \X (1..(2 * MaxSockets))
                     \X (1..(MaxSockets * (MaxTokens + 1))) :
        /\ m <= Len(sessions[i].messages)
        /\ n <= Len(sessions[i].messages[m].content)
        /\ sessions[i].messages[m].content[n] = Piece(k, "token")}

\* C25: every token streamed for a request is appended to the assistant
\* message made for that request and to no other: a token of a socket is
\* found only in the session the request was sent for, in an assistant
\* message, and as long as that session exists every token received so far
\* is there, whatever the user switched, created or deleted meanwhile.
C25_TokensReachTheirMessage ==
    \A k \in 1..Len(sockets) :
        /\ \A p \in TokenPlaces(k) :
            /\ sessions[p[1]].id = sockets[k].session_id
            /\ sessions[p[1]].messages[p[2]].role = "assistant"
        /\ (\E i \in 1..Len(sessions) : sessions[i].id = sockets[k].session_id)
                => Cardinality(TokenPlaces(k)) = sockets[k].tokens

----------------------------------------------------------------------------
(* C26 *)

\* C26: the late close event of a replaced socket does not disturb the new
\* request: while the newest socket is open, wsRef.current is that socket
\* (so that disconnect() closes it) and the hook's isConnected and
\* isStreaming, set by its onopen, are still true.
C26_ReplacedSocketIsInert ==
    (sockets # <<>> /\ sockets[Len(sockets)].st = "open") =>
        /\ wsRef = Len(sockets)
        /\ isConnected
        /\ hookStreaming

----------------------------------------------------------------------------
(* C27 *)

\* C27: whenever the connection of a request terminates (by 'done', by a
\* server 'error', by a socket error or by the socket closing without
\* 'done'), the chat store's isStreaming becomes false: once every socket
\* is closed, so that no event of any request is still to come, the store
\* is not streaming and the message input is enabled.
C27_StreamingEndsWithConnection ==
    (sockets # <<>> /\ \A k \in 1..Len(sockets) : sockets[k].st = "closed")
        => ~isStreaming

----------------------------------------------------------------------------
(* C28 *)

\* C28: in every state the chat store reaches by createSession,
\* switchSession to an existing id, deleteSession, clearAllSessions,
\* renameSession and addMessage, activeSessionId is null or the id of
\* exactly one session, and it is null only when there is no session.
C28_ActiveSessionValid ==
    IF activeSessionId = NoSession THEN sessions = <<>>
    ELSE Cardinality({i \in 1..Len(sessions) :
                        sessions[i].id = activeSessionId}) = 1

\* the active session has been deleted and an older one has taken over
C28_Witness ==
    /\ sessions # <<>>
    /\ activeSessionId = sessions[1].id
    /\ activeSessionId < idCounter

----------------------------------------------------------------------------
(* The artifact panel in the page *)

\* updateLastMessage: the updates are written over the last message of the
\* session that is active when they arrive; nothing is saved
updateLastMessage(ss, active, updates) ==
    IF active = NoSession THEN ss
    ELSE [i \in 1..Len(ss) |->
            IF ss[i].id # active \/ ss[i].messages = <<>> THEN ss[i]
            ELSE [ss[i] EXCEPT !.messages[Len(ss[i].messages)] =
                                    Merge(@, updates)]]

\* ws.onmessage, type 'visualization' with a spec: onVisualization ->
\* setArtifact(viz); updateLastMessage({visualization: viz})
WsVisualization ==
    /\ \E k \in 1..Len(sockets) : sockets[k].st = "open"
    /\ \E viz \in Vizs :
        /\ setArtifact(viz)
        /\ sessions' = updateLastMessage(sessions, activeSessionId,
                                         [visualization |-> viz])
    /\ UNCHANGED <<activeSessionId, isStreaming, idCounter, input, wsRef,
                   sockets, isConnected, hookStreaming, stored, saveTimers,
                   serverVars>>

\* ArtifactPanel: {artifactPanelOpen && currentArtifact && (<motion.aside>
PanelRendered == artifactPanelOpen /\ currentArtifact # null

\* faulty variant: the toggle button is offered without an artifact
HeaderToggle_always_offered ==
    /\ toggleArtifactPanel
    /\ UNCHANGED <<chatVars, serverVars>>

\* Header: {currentArtifact && (<button onClick={toggleArtifactPanel}>
HeaderToggle ==
    /\ currentArtifact # null
    /\ toggleArtifactPanel
    /\ UNCHANGED <<chatVars, serverVars>>

\* ArtifactPanel.handleClose, the button inside the rendered panel:
\* setArtifactPanelOpen(false)
handleClose ==
    /\ PanelRendered
    /\ setArtifactPanelOpen(FALSE)
    /\ UNCHANGED <<chatVars, serverVars>>

PanelNext ==
    \/ SelectPrompt
    \/ WsOpen
    \/ WsVisualization
    \/ WsDone
    \/ WsClose
    \/ SaveTimerFires
    \/ HeaderToggle
    \/ handleClose

\* a request that brings visualizations, and the user at the panel
PanelSpec == UiInit /\ [][PanelNext]_vars

----------------------------------------------------------------------------
(* C29 *)

\* C29: in every state reachable through the UI (setArtifact when a
\* visualization arrives, the header toggle offered only while an artifact
\* exists, the close button of the panel) artifactPanelOpen implies that
\* currentArtifact is non-null, so the panel is rendered exactly when the
\* store says it is open.
C29_OpenPanelHasArtifact ==
    /\ artifactPanelOpen => currentArtifact # null
    /\ PanelRendered <=> artifactPanelOpen

\* the panel is shown after its request has ended
C29_Witness ==
    /\ PanelRendered
    /\ \E k \in 1..Len(sockets) : sockets[k].st = "closed"

----------------------------------------------------------------------------
(* C30 *)

\* what deleteSession(id) is to leave behind
DeletedExactly(id) ==
    LET keep == {i \in 1..Len(sessions) : sessions[i].id # id}
        gone(i) == Cardinality({k \in 1..i : sessions[k].id = id})
    IN  /\ Len(sessions') = Cardinality(keep)
        /\ \A i \in keep : sessions'[i - gone(i)] = sessions[i]
        /\ activeSessionId' =
                IF activeSessionId # id THEN activeSessionId
                ELSE IF sessions' = <<>> THEN NoSession
                ELSE sessions'[1].id
        /\ keep = 1..Len(sessions) =>
                sessions' = sessions /\ activeSessionId' = activeSessionId

====
